---- MODULE Spec2Model ----
(***************************************************************************)
(* Model of the ICBC appointment checker: the suitability filter of        *)
(* icbc_checker.py, the novelty bookkeeping of check_for_new_appointments, *)
(* and the polling loop of run_continuous_check.                           *)
(*                                                                         *)
(* Texts are sequences of one-character strings, so that substring tests,  *)
(* the date regular expression, strptime and the f-string that builds the  *)
(* appointment key are computed character by character.  Python's None is  *)
(* the one-element sequence None, which no text equals.                    *)
(***************************************************************************)
EXTENDS Integers, Sequences, FiniteSets, TLC

\* ------------------------------------------------------------------------
\* Python string primitives
\* ------------------------------------------------------------------------
None == <<"<None>">>

UpperCase == <<"A","B","C","D","E","F","G","H","I","J","K","L","M",
               "N","O","P","Q","R","S","T","U","V","W","X","Y","Z">>

LowerCase == <<"a","b","c","d","e","f","g","h","i","j","k","l","m",
               "n","o","p","q","r","s","t","u","v","w","x","y","z">>

DigitChars == <<"0","1","2","3","4","5","6","7","8","9">>

UpperSet == {UpperCase[i] : i \in 1..26}

LowerSet == {LowerCase[i] : i \in 1..26}

DigitSet == {DigitChars[i] : i \in 1..10}

IsUpper(c) == c \in UpperSet

IsLower(c) == c \in LowerSet

\* \d of the re module
IsDigit(c) == c \in DigitSet

\* \w of the re module
WordSet == UpperSet \cup LowerSet \cup DigitSet \cup {"_"}

lower_char(c) ==
  IF IsUpper(c) THEN LowerCase[CHOOSE i \in 1..26 : UpperCase[i] = c] ELSE c

\* str.lower()
lower(s) == [i \in 1..Len(s) |-> lower_char(s[i])]

\* Python's `sub in s` on strings
contains(sub, s) ==
  \E i \in 0..(Len(s) - Len(sub)) : SubSeq(s, i + 1, i + Len(sub)) = sub

\* str.strip()
strip(s) ==
  LET keep == {i \in 1..Len(s) : s[i] # " "}
  IN  IF keep = {} THEN <<>>
      ELSE SubSeq(s, CHOOSE i \in keep : \A j \in keep : i <= j,
                     CHOOSE i \in keep : \A j \in keep : j <= i)

\* str.split(',')
RECURSIVE split(_)
split(s) ==
  LET commas == {i \in 1..Len(s) : s[i] = ","}
  IN  IF commas = {} THEN <<s>>
      ELSE LET k == CHOOSE i \in commas : \A j \in commas : i <= j
           IN  <<SubSeq(s, 1, k - 1)>> \o split(SubSeq(s, k + 1, Len(s)))

\* str.zfill(2)
zfill2(s) == IF Len(s) = 0 THEN <<"0","0">>
             ELSE IF Len(s) = 1 THEN <<"0">> \o s ELSE s

DigitVal(c) == (CHOOSE i \in 1..10 : DigitChars[i] = c) - 1

\* int() of a string of digits
RECURSIVE ToInt(_)
ToInt(s) ==
  IF Len(s) = 0 THEN 0
  ELSE 10 * ToInt(SubSeq(s, 1, Len(s) - 1)) + DigitVal(s[Len(s)])

\* truthiness of an Optional[str]: None and "" are falsy
Truthy(x) == x # None /\ x # <<>>

\* str(x) as an f-string field formats it: None prints as the text None
Str(x) == IF x = None THEN <<"N","o","n","e">> ELSE x

\* ------------------------------------------------------------------------
\* datetime.strptime(s, '%Y-%m-%d')
\* ------------------------------------------------------------------------
ValueError == [ok |-> FALSE, y |-> 0, m |-> 0, d |-> 0]

IsLeap(y) == (y % 4 = 0 /\ y % 100 # 0) \/ y % 400 = 0

DaysInMonth(y, m) ==
  IF m = 2 THEN (IF IsLeap(y) THEN 29 ELSE 28)
  ELSE IF m \in {4, 6, 9, 11} THEN 30 ELSE 31

At(s, i) == IF i >= 1 /\ i <= Len(s) THEN s[i] ELSE ""

\* length of the text the directive %m matches at position i when the next
\* character has to be "-": 1[0-2] | 0[1-9] | [1-9], tried in that order
MonthFieldLen(s, i) ==
  LET a == At(s, i)
      b == At(s, i + 1)
      two == \/ (a = "1" /\ b \in {"0","1","2"})
             \/ (a = "0" /\ IsDigit(b) /\ b # "0")
  IN  IF two /\ At(s, i + 2) = "-" THEN 2
      ELSE IF IsDigit(a) /\ a # "0" /\ b = "-" THEN 1
      ELSE 0

\* length of the text the directive %d matches at position i:
\* 3[0-1] | [1-2]\d | 0[1-9] | [1-9] | " "[1-9], tried in that order
DayFieldLen(s, i) ==
  LET a == At(s, i)
      b == At(s, i + 1)
  IN  IF \/ (a = "3" /\ b \in {"0","1"})
         \/ (a \in {"1","2"} /\ IsDigit(b))
         \/ (a = "0" /\ IsDigit(b) /\ b # "0")
         \/ (a = " " /\ IsDigit(b) /\ b # "0")
      THEN 2
      ELSE IF IsDigit(a) /\ a # "0" THEN 1
      ELSE 0

strptime(s) ==
  IF ~ (/\ Len(s) >= 5
        /\ \A i \in 1..4 : IsDigit(s[i])
        /\ s[5] = "-")
  THEN ValueError
  ELSE
    LET ml == MonthFieldLen(s, 6)
        dl == DayFieldLen(s, 7 + ml)
    IN  IF ml = 0 \/ dl = 0 \/ 6 + ml + dl # Len(s) THEN ValueError
        ELSE
          LET y  == ToInt(SubSeq(s, 1, 4))
              m  == ToInt(SubSeq(s, 6, 5 + ml))
              dt == strip(SubSeq(s, 7 + ml, 6 + ml + dl))
              d  == ToInt(dt)
          IN  IF y < 1 \/ d > DaysInMonth(y, m) THEN ValueError
              ELSE [ok |-> TRUE, y |-> y, m |-> m, d |-> d]

\* datetime a < datetime b
DateLess(a, b) ==
  \/ a.y < b.y
  \/ (a.y = b.y /\ a.m < b.m)
  \/ (a.y = b.y /\ a.m = b.m /\ a.d < b.d)

\* ------------------------------------------------------------------------
\* re.search(r'(\w+), (\w+) (\d+), (\d+)', date_text)
\* ------------------------------------------------------------------------
\* last index of the longest run of characters of class cls that starts at
\* position a; a - 1 when there is none
RECURSIVE RunEnd(_, _, _)
RunEnd(s, a, cls) ==
  IF a > Len(s) THEN a - 1
  ELSE IF s[a] \notin cls THEN a - 1
  ELSE RunEnd(s, a + 1, cls)

\* the four groups when the pattern matches with group 1 starting at a.
\* Each group is followed by a character outside its class, so a greedy
\* group matches its whole run and backtracking finds nothing shorter.
MatchAt(s, a) ==
  LET b1 == RunEnd(s, a, WordSet)
      a2 == b1 + 3
      b2 == RunEnd(s, a2, WordSet)
      a3 == b2 + 2
      b3 == RunEnd(s, a3, DigitSet)
      a4 == b3 + 3
      b4 == RunEnd(s, a4, DigitSet)
  IN  IF /\ b1 >= a /\ At(s, b1 + 1) = "," /\ At(s, b1 + 2) = " "
         /\ b2 >= a2 /\ At(s, b2 + 1) = " "
         /\ b3 >= a3 /\ At(s, b3 + 1) = "," /\ At(s, b3 + 2) = " "
         /\ b4 >= a4
      THEN [matched |-> TRUE,
            month_name |-> SubSeq(s, a2, b2),
            day |-> SubSeq(s, a3, b3),
            year |-> SubSeq(s, a4, b4)]
      ELSE [matched |-> FALSE, month_name |-> <<>>, day |-> <<>>, year |-> <<>>]

\* the match with the leftmost start at or after a, as re.search returns it
RECURSIVE SearchFrom(_, _)
SearchFrom(s, a) ==
  LET g == MatchAt(s, a)
  IN  IF g.matched \/ a > Len(s) THEN g ELSE SearchFrom(s, a + 1)

date_match(s) == SearchFrom(s, 1)

month_names ==
    <<<<"j","a","n","u","a","r","y">>,
       <<"f","e","b","r","u","a","r","y">>,
       <<"m","a","r","c","h">>,
       <<"a","p","r","i","l">>,
       <<"m","a","y">>,
       <<"j","u","n","e">>,
       <<"j","u","l","y">>,
       <<"a","u","g","u","s","t">>,
       <<"s","e","p","t","e","m","b","e","r">>,
       <<"o","c","t","o","b","e","r">>,
       <<"n","o","v","e","m","b","e","r">>,
       <<"d","e","c","e","m","b","e","r">>>>

TwoDigits(n) == <<DigitChars[(n \div 10) + 1], DigitChars[(n % 10) + 1]>>

\* month_map.get(month_name.lower(), '01')
month_num(month_name) ==
  LET hits == {i \in 1..12 : month_names[i] = lower(month_name)}
  IN  IF hits = {} THEN <<"0","1">> ELSE TwoDigits(CHOOSE i \in hits : TRUE)

\* ------------------------------------------------------------------------
\* Config (config.py)
\* ------------------------------------------------------------------------
\* Config.get_preferred_test_centers() for the raw PREFERRED_TEST_CENTERS
get_preferred_test_centers(centers_raw) ==
  LET parts == split(centers_raw)
  IN  [i \in 1..Len(parts) |-> strip(parts[i])]

\* Config.get_earliest_acceptable_date() for the raw EARLIEST_ACCEPTABLE_DATE;
\* a text that is no calendar date makes strptime raise ValueError
get_earliest_acceptable_date(earliest_raw) == strptime(earliest_raw)

\* ------------------------------------------------------------------------
\* ICBCAppointmentChecker._is_appointment_suitable
\* ------------------------------------------------------------------------
\* location_ok with the test the wrong way round: `location in center`
location_ok_reversed(location, centers_raw) ==
  IF Truthy(location)
  THEN LET centers == get_preferred_test_centers(centers_raw)
       IN  \E i \in 1..Len(centers) : contains(lower(location), lower(centers[i]))
  ELSE TRUE

\* location_ok without the guard on a missing location
location_ok_unguarded(location, centers_raw) ==
  LET centers == get_preferred_test_centers(centers_raw)
  IN  \E i \in 1..Len(centers) : contains(lower(centers[i]), lower(Str(location)))

\* the location rule: FALSE is the `return False` of the location block
location_ok(location, centers_raw) ==
  IF Truthy(location)
  THEN LET centers == get_preferred_test_centers(centers_raw)
       IN  \E i \in 1..Len(centers) : contains(lower(centers[i]), lower(location))
  ELSE TRUE

\* date_ok with `except ValueError: return False`
date_ok_value_error_rejects(date, earliest_raw) ==
  IF ~ Truthy(date) THEN TRUE
  ELSE
    LET g == date_match(date)
    IN  IF ~ g.matched THEN TRUE
        ELSE
          LET appointment_date ==
                strptime(g.year \o <<"-">> \o month_num(g.month_name)
                                \o <<"-">> \o zfill2(g.day))
              earliest_acceptable == get_earliest_acceptable_date(earliest_raw)
          IN  IF ~ appointment_date.ok THEN FALSE
              ELSE IF ~ earliest_acceptable.ok THEN FALSE
              ELSE ~ DateLess(appointment_date, earliest_acceptable)

\* date_ok with `if appointment_date <= earliest_acceptable: return False`
date_ok_rejects_equal(date, earliest_raw) ==
  IF ~ Truthy(date) THEN TRUE
  ELSE
    LET g == date_match(date)
    IN  IF ~ g.matched THEN TRUE
        ELSE
          LET appointment_date ==
                strptime(g.year \o <<"-">> \o month_num(g.month_name)
                                \o <<"-">> \o zfill2(g.day))
              earliest_acceptable == get_earliest_acceptable_date(earliest_raw)
          IN  IF ~ appointment_date.ok THEN TRUE
              ELSE IF ~ earliest_acceptable.ok THEN TRUE
              ELSE DateLess(earliest_acceptable, appointment_date)

\* the date rule: FALSE is the `return False` of the date block; every
\* ValueError raised inside the block is swallowed by its except clause
date_ok(date, earliest_raw) ==
  IF ~ Truthy(date) THEN TRUE
  ELSE
    LET g == date_match(date)
    IN  IF ~ g.matched THEN TRUE
        ELSE
          LET appointment_date ==
                strptime(g.year \o <<"-">> \o month_num(g.month_name)
                                \o <<"-">> \o zfill2(g.day))
              earliest_acceptable == get_earliest_acceptable_date(earliest_raw)
          IN  IF ~ appointment_date.ok THEN TRUE
              ELSE IF ~ earliest_acceptable.ok THEN TRUE
              ELSE ~ DateLess(appointment_date, earliest_acceptable)

is_appointment_suitable(appointment_data, centers_raw, earliest_raw) ==
  /\ location_ok(appointment_data.location, centers_raw)
  /\ date_ok(appointment_data.date, earliest_raw)

\* ------------------------------------------------------------------------
\* ICBCAppointmentChecker._extract_appointment_data_from_button
\* ------------------------------------------------------------------------
\* a button whose .text raises (a stale element)
Stale == <<"<stale>">>

NoAppointment == [date |-> None, time |-> None, location |-> None,
                  license_type |-> "<none>"]

am_pm == {<<"a","m">>, <<"p","m">>}

\* the text of the first element whose text is one of good, None when there
\* is none
FirstText(elements, good) ==
  LET hits == {i \in 1..Len(elements) : strip(elements[i]) \in good}
  IN  IF hits = {} THEN None
      ELSE strip(elements[CHOOSE i \in hits : \A j \in hits : i <= j])

\* the texts of the elements
Texts(elements) == {strip(elements[i]) : i \in 1..Len(elements)}

\* line 410 as `return appointment_data`
appointment_or_none_unchecked(appointment_data) == appointment_data

\* line 410: `return appointment_data if appointment_data['time'] else None`
appointment_or_none(appointment_data) ==
  IF Truthy(appointment_data.time) THEN appointment_data ELSE NoAppointment

HasMonthName(text) == \E i \in 1..12 : contains(month_names[i], lower(text))

\* the text of the first location element is taken, whatever it names
extract_appointment_data_from_button_first_location(button, date_elements, location_elements, centers_raw) ==
  IF button = Stale THEN NoAppointment
  ELSE
    LET button_text == strip(button)
        time == IF /\ button_text # <<>>
                   /\ \E w \in am_pm : contains(w, lower(button_text))
                THEN button_text ELSE None
    IN  appointment_or_none(
          [date |-> FirstText(date_elements,
                              {t \in Texts(date_elements) : HasMonthName(t)}),
           time |-> time,
           location |-> FirstText(location_elements, Texts(location_elements)),
           license_type |-> "Class 7 (N)"])

\* any button text that is not empty is taken for a time
extract_appointment_data_from_button_any_text(button, date_elements, location_elements, centers_raw) ==
  IF button = Stale THEN NoAppointment
  ELSE
    LET button_text == strip(button)
        time == IF button_text # <<>> THEN button_text ELSE None
        centers == get_preferred_test_centers(centers_raw)
        HasCenter(text) ==
          \E i \in 1..Len(centers) : contains(lower(centers[i]), lower(text))
    IN  appointment_or_none(
          [date |-> FirstText(date_elements,
                              {t \in Texts(date_elements) : HasMonthName(t)}),
           time |-> time,
           location |-> FirstText(location_elements,
                                  {t \in Texts(location_elements) : HasCenter(t)}),
           license_type |-> "Class 7 (N)"])

extract_appointment_data_from_button(button, date_elements, location_elements, centers_raw) ==
  IF button = Stale THEN NoAppointment
  ELSE
    LET button_text == strip(button)
        time == IF /\ button_text # <<>>
                   /\ \E w \in am_pm : contains(w, lower(button_text))
                THEN button_text ELSE None
        centers == get_preferred_test_centers(centers_raw)
        HasCenter(text) ==
          \E i \in 1..Len(centers) : contains(lower(centers[i]), lower(text))
    IN  appointment_or_none(
          [date |-> FirstText(date_elements,
                              {t \in Texts(date_elements) : HasMonthName(t)}),
           time |-> time,
           location |-> FirstText(location_elements,
                                  {t \in Texts(location_elements) : HasCenter(t)}),
           license_type |-> "Class 7 (N)"])

\* ------------------------------------------------------------------------
\* ICBCAppointmentChecker.check_availability: the suitable appointments of
\* the buttons found on the page, in page order
\* ------------------------------------------------------------------------
\* every appointment the extractor produced is kept, suitable or not
is_kept_unfiltered(appointment_data, centers_raw, earliest_raw) ==
  appointment_data # NoAppointment

\* line 356: `appointment_data and self._is_appointment_suitable(appointment_data)`
is_kept(appointment_data, centers_raw, earliest_raw) ==
  /\ appointment_data # NoAppointment
  /\ is_appointment_suitable(appointment_data, centers_raw, earliest_raw)

RECURSIVE suitable_appointments(_, _, _, _, _)
suitable_appointments(buttons, date_elements, location_elements, centers_raw, earliest_raw) ==
  IF buttons = <<>> THEN <<>>
  ELSE
    LET appointment_data ==
          extract_appointment_data_from_button(Head(buttons), date_elements,
                                               location_elements, centers_raw)
        rest == suitable_appointments(Tail(buttons), date_elements,
                                      location_elements, centers_raw,
                                      earliest_raw)
    IN  IF is_kept(appointment_data, centers_raw, earliest_raw)
        THEN <<appointment_data>> \o rest
        ELSE rest

\* ------------------------------------------------------------------------
\* the key of check_for_new_appointments:
\* f"{appointment.get('date')}-{appointment.get('time')}-{appointment.get('location')}"
\* ------------------------------------------------------------------------
appointment_key(appointment) ==
  Str(appointment.date) \o <<"-">> \o Str(appointment.time)
                        \o <<"-">> \o Str(appointment.location)

\* lines 489-492 without the membership test
check_and_record_always_new(seen, appointment) ==
  [is_new |-> TRUE, seen |-> seen \cup {appointment_key(appointment)}]

\* lines 489-492 without the add
check_and_record_no_insert(seen, appointment) ==
  [is_new |-> appointment_key(appointment) \notin seen, seen |-> seen]

\* lines 489-492 with the add ahead of the membership test
check_and_record_add_first(seen, appointment) ==
  LET added == seen \cup {appointment_key(appointment)}
  IN  [is_new |-> appointment_key(appointment) \notin added, seen |-> added]

\* lines 489-492 of check_for_new_appointments: one pass of the loop body
\* on a seen set, giving whether the appointment is new and the seen set
\* the pass leaves behind
check_and_record(seen, appointment) ==
  LET appointment_key_ == appointment_key(appointment)
  IN  IF appointment_key_ \notin seen
      THEN [is_new |-> TRUE, seen |-> seen \cup {appointment_key_}]
      ELSE [is_new |-> FALSE, seen |-> seen]

\* ------------------------------------------------------------------------
\* Config.validate_config
\* ------------------------------------------------------------------------
required_fields == {"ICBC_KEYWORD", "ICBC_LAST_NAME", "ICBC_LICENSE_NUMBER"}

email_fields == {"EMAIL_SENDER", "EMAIL_PASSWORD", "EMAIL_RECIPIENT"}

sms_fields == {"TWILIO_ACCOUNT_SID", "TWILIO_AUTH_TOKEN", "TWILIO_PHONE_NUMBER", "RECIPIENT_PHONE_NUMBER"}

\* the fields of the selected channel are not looked at
validate_config_required_only(unset, method) ==
  unset \cap required_fields = {}

\* validate_config, unset being the fields for which `not getattr(cls,
\* field)` holds
validate_config(unset, method) ==
  LET missing_fields == unset \cap required_fields
  IN  IF missing_fields # {} THEN FALSE
      ELSE IF method = "email" THEN unset \cap email_fields = {}
      ELSE IF method = "sms" THEN unset \cap sms_fields = {}
      ELSE TRUE

\* ------------------------------------------------------------------------
\* notifier.py
\* ------------------------------------------------------------------------
\* the calls _send_email_notification makes on the SMTP server, in order
EmailCalls == <<"SMTP", "starttls", "login", "sendmail", "quit">>

\* the calls _send_sms_notification makes on Twilio, in order
SmsCalls == <<"Client", "create">>

Range(f) == {f[i] : i \in DOMAIN f}

Position(calls, c) == CHOOSE i \in DOMAIN calls : calls[i] = c

\* what the outside world does with one send: "ok", or the call that raises
Transports == {"ok"} \cup Range(EmailCalls) \cup Range(SmsCalls)

\* a try block that makes `calls` in order, `transmit` being the call that
\* hands the message over: whether it raises, and how many times the
\* message was handed over
Attempt(calls, transmit, fails_at) ==
  LET raises == fails_at \in Range(calls)
  IN  [raises |-> raises,
       transmissions |->
         IF raises /\ Position(calls, fails_at) < Position(calls, transmit)
         THEN 0 ELSE 1]

\* the except clause answers True
send_email_notification_swallows(fails_at) ==
  LET body == Attempt(EmailCalls, "sendmail", fails_at)
  IN  [result |-> TRUE, raised |-> FALSE, channels |-> {"email"},
       email |-> body.transmissions, sms |-> 0]

\* _send_email_notification: `except Exception` turns whatever the SMTP
\* calls raise into False
send_email_notification(fails_at) ==
  LET body == Attempt(EmailCalls, "sendmail", fails_at)
  IN  [result |-> ~body.raises, raised |-> FALSE, channels |-> {"email"},
       email |-> body.transmissions, sms |-> 0]

\* _send_sms_notification: `except TwilioException` and `except Exception`
\* both answer False
send_sms_notification(fails_at) ==
  LET body == Attempt(SmsCalls, "create", fails_at)
  IN  [result |-> ~body.raises, raised |-> FALSE, channels |-> {"sms"},
       email |-> 0, sms |-> body.transmissions]

\* the fields of the appointment as an f-string writes them:
\* f"{appointment_data.get('date', 'Unknown')}" is the text, or "None"
console_fields(appointment_data) ==
  <<Str(appointment_data.date), Str(appointment_data.time),
    Str(appointment_data.location)>>

\* the lines are built with "Date: " + appointment_data['date'], which
\* raises TypeError on None
send_console_notification_concatenates(appointment_data) ==
  LET raises == \/ None \in {appointment_data.date, appointment_data.time,
                              appointment_data.location}
                \/ appointment_data.license_type = "<none>"
  IN  [result |-> ~raises, raised |-> FALSE, channels |-> {"console"},
       email |-> 0, sms |-> 0]

\* _send_console_notification: prints the four fields, each through an
\* f-string, and answers True
send_console_notification(appointment_data) ==
  LET raises == \E i \in 1..3 : console_fields(appointment_data)[i] = None
  IN  [result |-> ~raises, raised |-> FALSE, channels |-> {"console"},
       email |-> 0, sms |-> 0]

\* the branch of send_notification that NOTIFICATION_METHOD selects
\* a method that is none of the three goes to the console
dispatch_unknown_goes_to_console(method, appointment_data, fails_at) ==
  IF method = "email" THEN send_email_notification(fails_at)
  ELSE IF method = "sms" THEN send_sms_notification(fails_at)
  ELSE send_console_notification(appointment_data)

dispatch(method, appointment_data, fails_at) ==
  IF method = "email" THEN send_email_notification(fails_at)
  ELSE IF method = "sms" THEN send_sms_notification(fails_at)
  ELSE IF method = "console" THEN send_console_notification(appointment_data)
  ELSE [result |-> FALSE, raised |-> FALSE, channels |-> {},
        email |-> 0, sms |-> 0]

\* a second attempt is made when the first one answers False
send_notification_retries(method, appointment_data, fails_at) ==
  LET first == dispatch(method, appointment_data, fails_at)
      second == dispatch(method, appointment_data, fails_at)
  IN  IF first.result THEN first
      ELSE [second EXCEPT !.email = @ + first.email, !.sms = @ + first.sms]

\* Notifier.send_notification
send_notification(method, appointment_data, fails_at) ==
  LET r == dispatch(method, appointment_data, fails_at)
  IN  IF r.raised THEN [r EXCEPT !.result = FALSE, !.raised = FALSE] ELSE r

\* ------------------------------------------------------------------------
\* State
\* ------------------------------------------------------------------------
VARIABLES
  PREFERRED_TEST_CENTERS,      \* Config.PREFERRED_TEST_CENTERS, raw text
  EARLIEST_ACCEPTABLE_DATE,    \* Config.EARLIEST_ACCEPTABLE_DATE, raw text
  NOTIFICATION_METHOD,         \* Config.NOTIFICATION_METHOD
  unset_fields,                \* the names of the Config fields that are
                               \* None or empty: `not getattr(cls, field)`
  mode,                        \* "once" (--once) or "continuous"
  pc,                          \* where the process is
  driver,                      \* self.driver: "none", "open" or "quit"
  page,                        \* what the browser shows in this cycle
  available_appointments,      \* local of check_for_new_appointments
  new_appointments,            \* local of check_for_new_appointments
  idx,                         \* position of the running for loop
  last_checked_appointments,   \* self.last_checked_appointments
  sent,                        \* bag of the appointments passed to
                               \* notifier.send_notification so far
  failed,                      \* the appointments for which
                               \* send_notification answered False
  printed,                     \* the counts the running cycle has printed,
                               \* as pairs <<what, count>>
  exit_status,                 \* the status the process ended with: "none"
                               \* while it runs, then "0" or "1"
  returned,                    \* how the last check_for_new_appointments
                               \* ended: "none", "True", "False", or the
                               \* exception that left it, "KeyboardInterrupt"
                               \* or "Exception"
  candidate,                   \* a raw appointment record
  verdict,                     \* _is_appointment_suitable on it: "pending",
                               \* "accepted" or "rejected"
  kept,                        \* whether check_availability keeps it:
                               \* "pending", "kept" or "dropped"
  tracker_seen,                \* seen set of a direct check-and-record pair
  tracker_appointment,         \* its appointment
  tracker_log,                 \* the results of the passes made so far
  notifier_appointment,        \* the appointment send_notification is
                               \* called with directly
  notifier_log                 \* the calls of send_notification made
                               \* directly, with what each one did

configVars  == <<PREFERRED_TEST_CENTERS, EARLIEST_ACCEPTABLE_DATE,
                 NOTIFICATION_METHOD, unset_fields>>

cycleVars   == <<mode, pc, driver, page, available_appointments,
                 new_appointments, idx, last_checked_appointments, sent,
                 failed, printed, exit_status, returned>>

filterVars  == <<candidate, verdict, kept>>

trackerVars == <<tracker_seen, tracker_appointment, tracker_log>>

notifierVars == <<notifier_appointment, notifier_log>>

vars == <<configVars, cycleVars, filterVars, trackerVars, notifierVars>>

\* ------------------------------------------------------------------------
\* Bounds and inputs
\* ------------------------------------------------------------------------
\* most buttons check_availability collects from one page
MaxButtons == 2

CycleCenters == <<"D","o","w","n","t","o","w","n",","," ","R","i","c","h","m","o","n","d">>

DefaultEarliest == <<"2","0","2","5","-","0","9","-","0","3">>

LateDate == <<"T","h","u","r","s","d","a","y",","," ","J","a","n","u","a","r","y"," ","2","2",","," ","2","0","2","6">>

EarlyDate == <<"M","o","n","d","a","y",","," ","M","a","r","c","h"," ","3",","," ","2","0","2","5">>

TimedButtonTexts == {<<"8",":","3","5"," ","A","M">>, <<" ","2"," ","p","m"," ">>}

ButtonTexts == TimedButtonTexts \cup {<<"M","o","r","n","i","n","g">>, Stale}

\* the date headers and location headers a page shows around its buttons
PageContexts ==
  {[date_elements |-> <<<<"C","h","o","o","s","e"," ","a"," ","d","a","y">>, LateDate>>,
    location_elements |-> <<<<"S","u","r","r","e","y"," ","O","f","f","i","c","e">>, <<"D","o","w","n","t","o","w","n"," ","I","C","B","C"," ","O","f","f","i","c","e">>>>],
   [date_elements |-> <<EarlyDate>>,
    location_elements |-> <<<<"S","u","r","r","e","y"," ","O","f","f","i","c","e">>, <<"D","o","w","n","t","o","w","n"," ","I","C","B","C"," ","O","f","f","i","c","e">>>>],
   [date_elements |-> <<>>,
    location_elements |-> <<<<"S","u","r","r","e","y"," ","O","f","f","i","c","e">>>>]}

RECURSIVE SeqsUpTo(_, _)
SeqsUpTo(S, n) ==
  IF n = 0 THEN {<<>>}
  ELSE LET shorter == SeqsUpTo(S, n - 1)
       IN  shorter \cup {Append(q, x) : q \in shorter, x \in S}

NoPage == [buttons |-> <<>>, date_elements |-> <<>>, location_elements |-> <<>>]

Pages == {[buttons |-> b, date_elements |-> c.date_elements,
           location_elements |-> c.location_elements] :
            b \in SeqsUpTo(ButtonTexts, MaxButtons), c \in PageContexts}

\* the default of Config.NOTIFICATION_METHOD
DefaultMethod == "console"

\* the values of NOTIFICATION_METHOD the polling process is run under
CycleMethods == {"console", "email", "pager"}

\* the configurations the polling process is started under: the three
\* kinds of method with nothing unset, and configurations with one field
\* unset
CycleConfigs ==
  {[method |-> m, unset |-> {}] : m \in CycleMethods}
    \cup {[method |-> "console", unset |-> {"ICBC_KEYWORD"}],
          [method |-> "email", unset |-> {"ICBC_LAST_NAME"}],
          [method |-> "pager", unset |-> {"ICBC_LICENSE_NUMBER"}],
          [method |-> "email", unset |-> {"EMAIL_SENDER"}],
          [method |-> "email", unset |-> {"EMAIL_PASSWORD"}],
          [method |-> "email", unset |-> {"EMAIL_RECIPIENT"}],
          [method |-> "sms", unset |-> {"TWILIO_ACCOUNT_SID"}],
          [method |-> "sms", unset |-> {"TWILIO_AUTH_TOKEN"}],
          [method |-> "sms", unset |-> {"TWILIO_PHONE_NUMBER"}],
          [method |-> "sms", unset |-> {"RECIPIENT_PHONE_NUMBER"}]}

\* the values of NOTIFICATION_METHOD: the three channels, and one that
\* send_notification does not know
Methods == {"console", "email", "sms", "pager"}

EmptyBag_ == <<>>

\* the bag b with one more copy of e
BagAdd(b, e) ==
  IF e \in DOMAIN b THEN [b EXCEPT ![e] = @ + 1]
  ELSE [x \in DOMAIN b \cup {e} |-> IF x = e THEN 1 ELSE b[x]]

\* ------------------------------------------------------------------------
\* The polling process: main.py, run_continuous_check and
\* check_for_new_appointments
\* ------------------------------------------------------------------------
IdleFilter == candidate = NoAppointment /\ verdict = "pending" /\ kept = "pending"

IdleTracker == /\ tracker_seen = {}
               /\ tracker_appointment = NoAppointment
               /\ tracker_log = <<>>

IdleNotifier == notifier_appointment = NoAppointment /\ notifier_log = <<>>

IdleCycle ==
  /\ mode = "continuous"
  /\ pc = "start"
  /\ driver = "none"
  /\ page = NoPage
  /\ available_appointments = <<>>
  /\ new_appointments = <<>>
  /\ idx = 0
  /\ last_checked_appointments = {}
  /\ sent = EmptyBag_
  /\ failed = {}
  /\ printed = {}
  /\ exit_status = "none"
  /\ returned = "none"

Init ==
  /\ PREFERRED_TEST_CENTERS = CycleCenters
  /\ EARLIEST_ACCEPTABLE_DATE = DefaultEarliest
  /\ \E c \in CycleConfigs :
       NOTIFICATION_METHOD = c.method /\ unset_fields = c.unset
  /\ mode \in {"once", "continuous"}
  /\ pc = "main"
  /\ driver = "none"
  /\ page = NoPage
  /\ available_appointments = <<>>
  /\ new_appointments = <<>>
  /\ idx = 0
  /\ last_checked_appointments = {}
  /\ sent = EmptyBag_
  /\ failed = {}
  /\ printed = {}
  /\ exit_status = "none"
  /\ returned = "none"
  /\ IdleFilter
  /\ IdleTracker
  /\ IdleNotifier

\* check_for_new_appointments leaves its try block, with the value r or
\* with the exception r: the finally clause is next
Return(r) ==
  /\ returned' = r
  /\ driver' = driver
  /\ pc' = "cleanup"
  /\ page' = NoPage
  /\ available_appointments' = <<>>
  /\ new_appointments' = <<>>
  /\ idx' = 0

\* main: Config.validate_config() decides whether the process goes on to
\* the checker or ends with sys.exit(1)
ValidateConfig ==
  /\ pc = "main"
  /\ IF validate_config(unset_fields, NOTIFICATION_METHOD)
     THEN pc' = "start" /\ exit_status' = exit_status
     ELSE pc' = "exited" /\ exit_status' = "1"
  /\ UNCHANGED <<mode, driver, page, available_appointments, new_appointments,
                 idx, last_checked_appointments, sent, failed, printed,
                 returned>>
  /\ UNCHANGED <<configVars, filterVars, trackerVars, notifierVars>>

\* setup_driver succeeds, and the checker starts the cycle with an empty
\* set of seen keys
SetupDriver_forgets_seen ==
  /\ pc = "start"
  /\ driver' = "open"
  /\ pc' = "navigate"
  /\ last_checked_appointments' = {}
  /\ UNCHANGED <<mode, page, available_appointments, new_appointments, idx,
                 sent, failed, returned>>
  /\ UNCHANGED <<printed, exit_status>>
  /\ UNCHANGED <<configVars, filterVars, trackerVars, notifierVars>>

\* setup_driver succeeds
SetupDriver ==
  /\ pc = "start"
  /\ driver' = "open"
  /\ pc' = "navigate"
  /\ UNCHANGED <<mode, page, available_appointments, new_appointments, idx,
                 last_checked_appointments, sent, failed, returned>>
  /\ UNCHANGED <<printed, exit_status>>
  /\ UNCHANGED <<configVars, filterVars, trackerVars, notifierVars>>

\* setup_driver returns False: webdriver.Chrome raised and self.driver keeps
\* the value it had, or set_page_load_timeout raised on the driver that had
\* just been assigned to self.driver
SetupDriverFails ==
  /\ pc = "start"
  /\ returned' = "False"
  /\ driver' \in {driver, "open"}
  /\ pc' = "cleanup"
  /\ page' = NoPage
  /\ available_appointments' = <<>>
  /\ new_appointments' = <<>>
  /\ idx' = 0
  /\ UNCHANGED <<mode, last_checked_appointments, sent, failed>>
  /\ UNCHANGED <<printed, exit_status>>
  /\ UNCHANGED <<configVars, filterVars, trackerVars, notifierVars>>

\* login_to_icbc ... select_test_center all return True
Navigate ==
  /\ pc = "navigate"
  /\ pc' = "availability"
  /\ UNCHANGED <<mode, driver, page, available_appointments, new_appointments,
                 idx, last_checked_appointments, sent, failed, returned>>
  /\ UNCHANGED <<printed, exit_status>>
  /\ UNCHANGED <<configVars, filterVars, trackerVars, notifierVars>>

\* what login_to_icbc ... select_test_center raise is caught nowhere
NavigateFails_uncaught ==
  /\ pc = "navigate"
  /\ Return("Exception")
  /\ UNCHANGED <<mode, last_checked_appointments, sent, failed>>
  /\ UNCHANGED <<printed, exit_status>>
  /\ UNCHANGED <<configVars, filterVars, trackerVars, notifierVars>>

\* one of login_to_icbc ... select_test_center returns False, or raises
\* and `except Exception` returns False
NavigateFails ==
  /\ pc = "navigate"
  /\ Return("False")
  /\ UNCHANGED <<mode, last_checked_appointments, sent, failed>>
  /\ UNCHANGED <<printed, exit_status>>
  /\ UNCHANGED <<configVars, filterVars, trackerVars, notifierVars>>

\* check_availability on the page the browser shows
CheckAvailability ==
  /\ pc = "availability"
  /\ \E p \in Pages :
       /\ page' = p
       /\ available_appointments' =
            suitable_appointments(p.buttons, p.date_elements,
                                  p.location_elements,
                                  PREFERRED_TEST_CENTERS,
                                  EARLIEST_ACCEPTABLE_DATE)
  /\ new_appointments' = <<>>
  /\ idx' = 1
  /\ pc' = "dedup"
  /\ UNCHANGED <<mode, driver, last_checked_appointments, sent, failed, returned>>
  /\ printed' = {<<"found", Len(available_appointments')>>}
  /\ UNCHANGED exit_status
  /\ UNCHANGED <<configVars, filterVars, trackerVars, notifierVars>>

\* check_availability raises inside its try block and returns [], whatever
\* the page shows
CheckAvailabilityFails ==
  /\ pc = "availability"
  /\ page' \in Pages
  /\ available_appointments' = <<>>
  /\ new_appointments' = <<>>
  /\ idx' = 1
  /\ pc' = "dedup"
  /\ UNCHANGED <<mode, driver, last_checked_appointments, sent, failed, returned>>
  /\ UNCHANGED <<printed, exit_status>>
  /\ UNCHANGED <<configVars, filterVars, trackerVars, notifierVars>>

\* every appointment of the list is taken for new
Dedup_appends_all ==
  /\ pc = "dedup"
  /\ idx <= Len(available_appointments)
  /\ LET appointment == available_appointments[idx]
         r == check_and_record(last_checked_appointments, appointment)
     IN  /\ new_appointments' = Append(new_appointments, appointment)
         /\ last_checked_appointments' = r.seen
  /\ idx' = idx + 1
  /\ UNCHANGED <<mode, pc, driver, page, available_appointments, sent, failed, returned>>
  /\ UNCHANGED <<printed, exit_status>>
  /\ UNCHANGED <<configVars, filterVars, trackerVars, notifierVars>>

\* one pass of `for appointment in available_appointments`
Dedup ==
  /\ pc = "dedup"
  /\ idx <= Len(available_appointments)
  /\ LET appointment == available_appointments[idx]
         r == check_and_record(last_checked_appointments, appointment)
     IN  /\ new_appointments' = IF r.is_new
                                THEN Append(new_appointments, appointment)
                                ELSE new_appointments
         /\ last_checked_appointments' = r.seen
  /\ idx' = idx + 1
  /\ UNCHANGED <<mode, pc, driver, page, available_appointments, sent, failed, returned>>
  /\ UNCHANGED <<printed, exit_status>>
  /\ UNCHANGED <<configVars, filterVars, trackerVars, notifierVars>>

\* the loop is over and something is new: on to the notifications
DedupDoneNew ==
  /\ pc = "dedup"
  /\ idx > Len(available_appointments)
  /\ new_appointments # <<>>
  /\ pc' = "notify"
  /\ idx' = 1
  /\ UNCHANGED <<mode, driver, page, available_appointments, new_appointments,
                 last_checked_appointments, sent, failed, returned>>
  /\ printed' = printed \cup {<<"new", Len(new_appointments)>>}
  /\ UNCHANGED exit_status
  /\ UNCHANGED <<configVars, filterVars, trackerVars, notifierVars>>

\* the loop is over and nothing is new: return False
DedupDoneNothing ==
  /\ pc = "dedup"
  /\ idx > Len(available_appointments)
  /\ new_appointments = <<>>
  /\ Return("False")
  /\ UNCHANGED <<mode, last_checked_appointments, sent, failed>>
  /\ printed' = printed \cup {<<"new", 0>>}
  /\ UNCHANGED exit_status
  /\ UNCHANGED <<configVars, filterVars, trackerVars, notifierVars>>

\* the loop is left when send_notification answers False
Notify_aborts_on_failure ==
  /\ pc = "notify"
  /\ idx <= Len(new_appointments)
  /\ sent' = BagAdd(sent, new_appointments[idx])
  /\ \E fails_at \in Transports :
       LET r == send_notification(NOTIFICATION_METHOD,
                                   new_appointments[idx], fails_at)
       IN  /\ failed' = IF r.result THEN failed
                         ELSE failed \cup {new_appointments[idx]}
           /\ idx' = IF r.result THEN idx + 1 ELSE Len(new_appointments) + 1
  /\ UNCHANGED <<mode, pc, driver, page, available_appointments,
                 new_appointments, last_checked_appointments, returned>>
  /\ UNCHANGED <<printed, exit_status>>
  /\ UNCHANGED <<configVars, filterVars, trackerVars, notifierVars>>

\* send_notification forgets the appointment when it answers False
Notify_forgets_failed ==
  /\ pc = "notify"
  /\ idx <= Len(new_appointments)
  /\ sent' = BagAdd(sent, new_appointments[idx])
  /\ \E fails_at \in Transports :
       LET r == send_notification(NOTIFICATION_METHOD,
                                   new_appointments[idx], fails_at)
       IN  /\ failed' = IF r.result THEN failed
                         ELSE failed \cup {new_appointments[idx]}
           /\ last_checked_appointments' =
                IF r.result THEN last_checked_appointments
                ELSE last_checked_appointments
                       \ {appointment_key(new_appointments[idx])}
  /\ idx' = idx + 1
  /\ UNCHANGED <<mode, pc, driver, page, available_appointments,
                 new_appointments, returned>>
  /\ UNCHANGED <<printed, exit_status>>
  /\ UNCHANGED <<configVars, filterVars, trackerVars, notifierVars>>

\* one pass of `for appointment in new_appointments`: send_notification is
\* called; whatever it returns is dropped
Notify ==
  /\ pc = "notify"
  /\ idx <= Len(new_appointments)
  /\ sent' = BagAdd(sent, new_appointments[idx])
  /\ \E fails_at \in Transports :
       LET r == send_notification(NOTIFICATION_METHOD,
                                   new_appointments[idx], fails_at)
       IN  failed' = IF r.result THEN failed
                     ELSE failed \cup {new_appointments[idx]}
  /\ idx' = idx + 1
  /\ UNCHANGED <<mode, pc, driver, page, available_appointments,
                 new_appointments, last_checked_appointments, returned>>
  /\ UNCHANGED <<printed, exit_status>>
  /\ UNCHANGED <<configVars, filterVars, trackerVars, notifierVars>>

\* every new appointment was handed to the notifier: return True
NotifyDone ==
  /\ pc = "notify"
  /\ idx > Len(new_appointments)
  /\ Return("True")
  /\ UNCHANGED <<mode, last_checked_appointments, sent, failed>>
  /\ UNCHANGED <<printed, exit_status>>
  /\ UNCHANGED <<configVars, filterVars, trackerVars, notifierVars>>

\* the next cycle starts when the interval is over, wherever the running
\* cycle is
Wake_on_timer ==
  /\ pc \in {"sleeping", "cleanup"}
  /\ pc' = "start"
  /\ UNCHANGED <<mode, driver, page, available_appointments, new_appointments,
                 idx, last_checked_appointments, sent, failed, returned>>
  /\ UNCHANGED <<printed, exit_status>>
  /\ UNCHANGED <<configVars, filterVars, trackerVars, notifierVars>>

\* time.sleep(CHECK_INTERVAL_MINUTES * 60) is over: next pass of while True
Wake ==
  /\ pc = "sleeping"
  /\ pc' = "start"
  /\ UNCHANGED <<mode, driver, page, available_appointments, new_appointments,
                 idx, last_checked_appointments, sent, failed, returned>>
  /\ UNCHANGED <<printed, exit_status>>
  /\ UNCHANGED <<configVars, filterVars, trackerVars, notifierVars>>

\* the finally clause of check_for_new_appointments, self.driver.quit()
\* returning if there is a driver, and what the caller does next:
\* time.sleep in run_continuous_check, the exit of run_single_check, the
\* except KeyboardInterrupt clause of either
Cleanup ==
  /\ pc = "cleanup"
  /\ driver' = IF driver = "none" THEN "none" ELSE "quit"
  /\ pc' = IF returned = "KeyboardInterrupt" THEN "stopped"
            ELSE IF returned = "Exception" THEN "crashed"
            ELSE IF mode = "once" THEN "exited" ELSE "sleeping"
  /\ UNCHANGED <<mode, page, available_appointments, new_appointments, idx,
                 last_checked_appointments, sent, failed, returned>>
  /\ printed' = {}
  /\ exit_status' = IF pc' = "exited"
                     THEN (IF returned = "False" THEN "1" ELSE "0")
                     ELSE IF pc' = "stopped" THEN "0"
                     ELSE IF pc' = "crashed"
                     THEN (IF mode = "once" THEN "1" ELSE "0")
                     ELSE exit_status
  /\ UNCHANGED <<configVars, filterVars, trackerVars, notifierVars>>

\* self.driver.quit() raises in the finally clause: the exception leaves
\* check_for_new_appointments and reaches `except Exception` of
\* run_continuous_check, which prints and returns (of __main__ with --once,
\* which exits).  Whether the browser is gone is not known.
CleanupFails ==
  /\ pc = "cleanup"
  /\ driver # "none"
  /\ driver' \in {driver, "quit"}
  /\ returned' = "Exception"
  /\ pc' = "crashed"
  /\ UNCHANGED <<mode, page, available_appointments, new_appointments, idx,
                 last_checked_appointments, sent, failed>>
  /\ printed' = {}
  /\ exit_status' = IF mode = "once" THEN "1" ELSE "0"
  /\ UNCHANGED <<configVars, filterVars, trackerVars, notifierVars>>

\* Ctrl+C: KeyboardInterrupt is raised wherever the process is.  It is no
\* Exception, so the except clause of check_for_new_appointments lets it
\* through to the finally clause; raised in the finally clause it leaves
\* the driver as it is; the except clause of run_continuous_check (of
\* __main__ with --once) ends the process.
Interrupt ==
  \/ /\ pc \in {"start", "sleeping"}
     /\ pc' = "stopped"
     /\ UNCHANGED <<mode, driver, page, available_appointments,
                    new_appointments, idx, last_checked_appointments, sent,
                    failed, returned>>
     /\ exit_status' = "0"
     /\ UNCHANGED printed
     /\ UNCHANGED <<configVars, filterVars, trackerVars, notifierVars>>
  \/ /\ pc \in {"navigate", "availability", "dedup", "notify"}
     /\ Return("KeyboardInterrupt")
     /\ UNCHANGED <<mode, last_checked_appointments, sent, failed>>
     /\ UNCHANGED <<printed, exit_status>>
     /\ UNCHANGED <<configVars, filterVars, trackerVars, notifierVars>>
  \/ /\ pc = "cleanup"
     /\ pc' = "stopped"
     /\ returned' = "KeyboardInterrupt"
     /\ UNCHANGED <<mode, driver, page, available_appointments,
                    new_appointments, idx, last_checked_appointments, sent,
                    failed>>
     /\ exit_status' = "0"
     /\ printed' = {}
     /\ UNCHANGED <<configVars, filterVars, trackerVars, notifierVars>>

Next ==
  \/ ValidateConfig
  \/ SetupDriver
  \/ SetupDriverFails
  \/ Navigate
  \/ NavigateFails
  \/ CheckAvailability
  \/ CheckAvailabilityFails
  \/ Dedup
  \/ DedupDoneNew
  \/ DedupDoneNothing
  \/ Notify
  \/ NotifyDone
  \/ Cleanup
  \/ CleanupFails
  \/ Wake
  \/ Interrupt

Spec == Init /\ [][Next]_vars

\* ------------------------------------------------------------------------
\* _is_appointment_suitable and the gate of check_availability, called on
\* one raw appointment record under one configuration
\* ------------------------------------------------------------------------
\* decimal numeral of n
RECURSIVE NumText(_)
NumText(n) ==
  IF n < 10 THEN <<DigitChars[n + 1]>>
  ELSE NumText(n \div 10) \o <<DigitChars[(n % 10) + 1]>>

OrdinalSuffix(d) ==
  IF (d % 100) \in 11..13 THEN <<"t","h">>
  ELSE IF d % 10 = 1 THEN <<"s","t">>
  ELSE IF d % 10 = 2 THEN <<"n","d">>
  ELSE IF d % 10 = 3 THEN <<"r","d">>
  ELSE <<"t","h">>

\* "<weekday>, <month name> <day><ordinal suffix>, <year>", or the same
\* without the suffix
DateText(weekday, month, day, ordinal, year) ==
  weekday \o <<","," ">> \o month \o <<" ">> \o NumText(day)
          \o (IF ordinal THEN OrdinalSuffix(day) ELSE <<>>)
          \o <<","," ">> \o NumText(year)

\* days of the calendar, with the month name as the page writes it
CalendarDays ==
  {[month |-> <<"M","a","r","c","h">>,     m |-> 3, d |-> 3,  y |-> 2025],
   [month |-> <<"S","e","p","t","e","m","b","e","r">>, m |-> 9, d |-> 2,  y |-> 2025],
   [month |-> <<"s","e","p","t","e","m","b","e","r">>, m |-> 9, d |-> 3,  y |-> 2025],
   [month |-> <<"S","E","P","T","E","M","B","E","R">>, m |-> 9, d |-> 4,  y |-> 2025],
   [month |-> <<"J","a","n","u","a","r","y">>,   m |-> 1, d |-> 22, y |-> 2026],
   [month |-> <<"F","e","b","r","u","a","r","y">>,  m |-> 2, d |-> 28, y |-> 2024],
   [month |-> <<"F","e","b","r","u","a","r","y">>,  m |-> 2, d |-> 29, y |-> 2024]}

\* days no calendar has
ImpossibleDays ==
  {[month |-> <<"F","e","b","r","u","a","r","y">>, m |-> 2, d |-> 30, y |-> 2026],
   [month |-> <<"F","e","b","r","u","a","r","y">>, m |-> 2, d |-> 29, y |-> 2025],
   [month |-> <<"A","p","r","i","l">>,    m |-> 4, d |-> 31, y |-> 2024],
   [month |-> <<"M","a","r","c","h">>,    m |-> 3, d |-> 32, y |-> 2024],
   [month |-> <<"M","a","r","c","h">>,    m |-> 3, d |-> 0,  y |-> 2024]}

\* days of a month no calendar names
UnknownMonthDays ==
  {[month |-> <<"F","o","o">>,  m |-> 0, d |-> 3, y |-> 2025],
   [month |-> <<"S","e","p","t">>, m |-> 0, d |-> 4, y |-> 2026]}

OrdinalText(day) == DateText(<<"M","o","n","d","a","y">>, day.month, day.d, TRUE, day.y)

PlainText(day) == DateText(<<"M","o","n","d","a","y">>, day.month, day.d, FALSE, day.y)

\* date texts of another shape
ShapelessDateTexts ==
  {<<"2","0","2","4","-","0","2","-","1","5">>, <<"M","a","r","c","h"," ","3">>, <<"M","o","n","d","a","y"," ","M","a","r","c","h"," ","3"," ","2","0","2","5">>, <<"M","o","n","d","a","y",","," ","3"," ","M","a","r","c","h",","," ","2","0","2","5">>}

DateInputs ==
  {None, <<>>}
    \cup {OrdinalText(day) :
            day \in CalendarDays \cup ImpossibleDays \cup UnknownMonthDays}
    \cup {PlainText(day) :
            day \in CalendarDays \cup ImpossibleDays \cup UnknownMonthDays}
    \cup ShapelessDateTexts

TimeInputs == {None, <<>>, <<"8",":","3","5"," ","A","M">>}

LocationInputs ==
  {None, <<>>, <<"S","u","r","r","e","y"," ","O","f","f","i","c","e">>, <<"D","o","w","n","t","o","w","n"," ","I","C","B","C"," ","O","f","f","i","c","e">>, <<"R","I","C","H","M","O","N","D">>, <<"t","o","w","n">>}

\* raw PREFERRED_TEST_CENTERS values with the entries they stand for
CenterInputs ==
  {[raw |-> <<"D","o","w","n","t","o","w","n",","," ","R","i","c","h","m","o","n","d">>, entries |-> <<<<"D","o","w","n","t","o","w","n">>, <<"R","i","c","h","m","o","n","d">>>>],
   [raw |-> <<"B","u","r","n","a","b","y">>,            entries |-> <<<<"B","u","r","n","a","b","y">>>>],
   [raw |-> <<>>,                 entries |-> <<<<>>>>]}

\* raw EARLIEST_ACCEPTABLE_DATE values with the day they stand for; the
\* last one is no day of the calendar
EarliestInputs ==
  {[raw |-> <<"2","0","2","5","-","0","9","-","0","3">>, valid |-> TRUE,  y |-> 2025, m |-> 9, d |-> 3],
   [raw |-> <<"2","0","2","4","-","0","2","-","2","9">>, valid |-> TRUE,  y |-> 2024, m |-> 2, d |-> 29],
   [raw |-> <<"2","0","2","5","-","0","2","-","3","0">>, valid |-> FALSE, y |-> 2025, m |-> 2, d |-> 30]}

InitFilter ==
  /\ PREFERRED_TEST_CENTERS \in {c.raw : c \in CenterInputs}
  /\ EARLIEST_ACCEPTABLE_DATE \in {e.raw : e \in EarliestInputs}
  /\ candidate \in [date : DateInputs, time : TimeInputs,
                    location : LocationInputs, license_type : {"Class 7 (N)"}]
  /\ verdict = "pending"
  /\ kept = "pending"
  /\ NOTIFICATION_METHOD = DefaultMethod
  /\ unset_fields = {}
  /\ IdleCycle
  /\ IdleTracker
  /\ IdleNotifier

\* self._is_appointment_suitable(candidate)
EvaluateFilter ==
  /\ verdict = "pending"
  /\ verdict' = IF is_appointment_suitable(candidate, PREFERRED_TEST_CENTERS,
                                           EARLIEST_ACCEPTABLE_DATE)
                THEN "accepted" ELSE "rejected"
  /\ UNCHANGED <<candidate, kept>>
  /\ UNCHANGED <<configVars, cycleVars, trackerVars, notifierVars>>

\* the extractor's return of the record followed by the test of
\* check_availability that decides whether it is appended
EvaluateGate ==
  /\ kept = "pending"
  /\ kept' = IF is_kept(appointment_or_none(candidate), PREFERRED_TEST_CENTERS,
                        EARLIEST_ACCEPTABLE_DATE)
             THEN "kept" ELSE "dropped"
  /\ UNCHANGED <<candidate, verdict>>
  /\ UNCHANGED <<configVars, cycleVars, trackerVars, notifierVars>>

NextFilter == EvaluateFilter \/ EvaluateGate

SpecFilter == InitFilter /\ [][NextFilter]_vars

\* ------------------------------------------------------------------------
\* Lines 489-492 run twice in a row on one appointment
\* ------------------------------------------------------------------------
\* the appointments check_availability can return for the pages above
TrackerAppointments ==
  [date : {None, LateDate}, time : {<<"8",":","3","5"," ","A","M">>, <<"2"," ","p","m">>},
   location : {None, <<"D","o","w","n","t","o","w","n"," ","I","C","B","C"," ","O","f","f","i","c","e">>}, license_type : {"Class 7 (N)"}]

InitTracker ==
  /\ PREFERRED_TEST_CENTERS = CycleCenters
  /\ EARLIEST_ACCEPTABLE_DATE = DefaultEarliest
  /\ tracker_seen \in SUBSET {appointment_key(a) : a \in TrackerAppointments}
  /\ tracker_appointment \in TrackerAppointments
  /\ tracker_log = <<>>
  /\ NOTIFICATION_METHOD = DefaultMethod
  /\ unset_fields = {}
  /\ IdleCycle
  /\ IdleFilter
  /\ IdleNotifier

CheckAndRecord ==
  /\ Len(tracker_log) < 2
  /\ LET r == check_and_record(tracker_seen, tracker_appointment)
     IN  /\ tracker_seen' = r.seen
         /\ tracker_log' = Append(tracker_log,
                                  [is_new |-> r.is_new,
                                   before |-> tracker_seen,
                                   after  |-> r.seen])
  /\ UNCHANGED tracker_appointment
  /\ UNCHANGED <<configVars, cycleVars, filterVars, notifierVars>>

NextTracker == CheckAndRecord

SpecTracker == InitTracker /\ [][NextTracker]_vars

\* ------------------------------------------------------------------------
\* The dedup body of check_for_new_appointments called on two appointments
\* in a row, from an empty last_checked_appointments
\* ------------------------------------------------------------------------
\* appointments the extractor can return: the date holds a month name, the
\* time holds am or pm, the location holds a preferred center
PairAppointments ==
  [date : {None, <<"M","a","r","c","h"," ","3",","," ","2","0","2","6">>, <<"M","a","r","c","h"," ","3",","," ","2","0","2","6","-","8"," ","A","M">>},
   time : {<<"8"," ","A","M">>, <<"9"," ","A","M">>, <<"8"," ","A","M","-","9"," ","A","M">>},
   location : {None, <<"D","o","w","n","t","o","w","n">>, <<"9"," ","A","M","-","D","o","w","n","t","o","w","n">>},
   license_type : {"Class 7 (N)"}]

InitPair ==
  /\ PREFERRED_TEST_CENTERS = CycleCenters
  /\ EARLIEST_ACCEPTABLE_DATE = DefaultEarliest
  /\ NOTIFICATION_METHOD = DefaultMethod
  /\ unset_fields = {}
  /\ tracker_seen = {}
  /\ tracker_appointment \in PairAppointments
  /\ tracker_log = <<>>
  /\ IdleCycle
  /\ IdleFilter
  /\ IdleNotifier

\* one pass of the dedup loop on the appointment at hand; the next
\* appointment of the list is any appointment
CheckAndRecordPair ==
  /\ Len(tracker_log) < 2
  /\ LET r == check_and_record(tracker_seen, tracker_appointment)
     IN  /\ tracker_seen' = r.seen
         /\ tracker_log' = Append(tracker_log,
                                  [appointment |-> tracker_appointment,
                                   appointment_key |->
                                     appointment_key(tracker_appointment),
                                   is_new |-> r.is_new])
  /\ tracker_appointment' \in IF tracker_log = <<>> THEN PairAppointments
                              ELSE {tracker_appointment}
  /\ UNCHANGED <<configVars, cycleVars, filterVars, notifierVars>>

NextPair == CheckAndRecordPair

SpecPair == InitPair /\ [][NextPair]_vars

\* ------------------------------------------------------------------------
\* Notifier.send_notification called directly, a few times in a row, under
\* one configuration
\* ------------------------------------------------------------------------
\* most calls made in a row
MaxCalls == 2

\* appointment records with every field present or absent
NotifierAppointments ==
  [date : {None, LateDate}, time : {None, <<"8",":","3","5"," ","A","M">>},
   location : {None, <<"D","o","w","n","t","o","w","n"," ","I","C","B","C"," ","O","f","f","i","c","e">>},
   license_type : {"<none>", "Class 7 (N)"}]

InitNotifier ==
  /\ PREFERRED_TEST_CENTERS = CycleCenters
  /\ EARLIEST_ACCEPTABLE_DATE = DefaultEarliest
  /\ NOTIFICATION_METHOD \in Methods
  /\ unset_fields = {}
  /\ notifier_appointment \in NotifierAppointments
  /\ notifier_log = <<>>
  /\ IdleCycle
  /\ IdleFilter
  /\ IdleTracker

\* self.notifier.send_notification(appointment), whatever the transport
\* does with it
SendNotification ==
  /\ Len(notifier_log) < MaxCalls
  /\ \E fails_at \in Transports :
       notifier_log' =
         Append(notifier_log,
                [fails_at |-> fails_at,
                 outcome |-> send_notification(NOTIFICATION_METHOD,
                                               notifier_appointment,
                                               fails_at)])
  /\ UNCHANGED notifier_appointment
  /\ UNCHANGED <<configVars, cycleVars, filterVars, trackerVars>>

NextNotifier == SendNotification

SpecNotifier == InitNotifier /\ [][NextNotifier]_vars

\* ------------------------------------------------------------------------
\* _extract_appointment_data_from_button called on one button of a page,
\* and the location rule of _is_appointment_suitable on what it returns,
\* under one configuration
\* ------------------------------------------------------------------------
\* most elements the location selector finds on the page
MaxElements == 2

\* texts of the elements the location selector finds
ElementTexts ==
  {<<"S","u","r","r","e","y"," ","O","f","f","i","c","e">>, <<" "," ","d","o","w","n","t","o","w","n"," ","i","c","b","c"," ","o","f","f","i","c","e"," ">>, <<"R","I","C","H","M","O","N","D">>, <<>>}

ExtractPages ==
  {[buttons |-> <<b>>, date_elements |-> <<LateDate>>, location_elements |-> l] :
     b \in ButtonTexts, l \in SeqsUpTo(ElementTexts, MaxElements)}

InitExtract ==
  /\ PREFERRED_TEST_CENTERS \in {c.raw : c \in CenterInputs}
  /\ EARLIEST_ACCEPTABLE_DATE = DefaultEarliest
  /\ NOTIFICATION_METHOD = DefaultMethod
  /\ unset_fields = {}
  /\ page \in ExtractPages
  /\ mode = "continuous"
  /\ pc = "start"
  /\ driver = "none"
  /\ available_appointments = <<>>
  /\ new_appointments = <<>>
  /\ idx = 0
  /\ last_checked_appointments = {}
  /\ sent = EmptyBag_
  /\ failed = {}
  /\ printed = {}
  /\ exit_status = "none"
  /\ returned = "none"
  /\ IdleFilter
  /\ IdleTracker
  /\ IdleNotifier

\* self._extract_appointment_data_from_button(button)
ExtractFromButton ==
  /\ kept = "pending"
  /\ candidate' = extract_appointment_data_from_button(page.buttons[1],
                                                       page.date_elements,
                                                       page.location_elements,
                                                       PREFERRED_TEST_CENTERS)
  /\ kept' = IF candidate' = NoAppointment THEN "none" ELSE "extracted"
  /\ UNCHANGED verdict
  /\ UNCHANGED <<configVars, cycleVars, trackerVars, notifierVars>>

\* the location block of _is_appointment_suitable on the extracted record
ApplyLocationRule ==
  /\ kept = "extracted"
  /\ verdict = "pending"
  /\ verdict' = IF location_ok(candidate.location, PREFERRED_TEST_CENTERS)
                THEN "accepted" ELSE "rejected"
  /\ UNCHANGED <<candidate, kept>>
  /\ UNCHANGED <<configVars, cycleVars, trackerVars, notifierVars>>

NextExtract == ExtractFromButton \/ ApplyLocationRule

SpecExtract == InitExtract /\ [][NextExtract]_vars

\* ------------------------------------------------------------------------
\* Properties
\* ------------------------------------------------------------------------
\* the keys of the appointments handed to the notifier so far
SentKeys == {appointment_key(a) : a \in DOMAIN sent}

\* between two cycles, or after the last one
CycleOver == pc \in {"start", "sleeping", "exited", "stopped"}

\* two characters that are the same letter, whatever their case
SameLetter(a, b) ==
  a = b \/ \E i \in 1..26 : {a, b} = {UpperCase[i], LowerCase[i]}

\* text contains entry, case ignored
ContainsIgnoringCase(entry, text) ==
  \E off \in 0..(Len(text) - Len(entry)) :
    \A j \in 1..Len(entry) : SameLetter(text[off + j], entry[j])

\* the entries of the configured preferred-location list
PreferredEntries ==
  (CHOOSE c \in CenterInputs : c.raw = PREFERRED_TEST_CENTERS).entries

ContainsPreferredEntry(location) ==
  \E i \in 1..Len(PreferredEntries) :
    ContainsIgnoringCase(PreferredEntries[i], location)

\* the candidate's location does not stand in the way of accepting it
LocationPermits ==
  ~ Truthy(candidate.location) \/ ContainsPreferredEntry(candidate.location)

\* day a of the calendar is strictly before day b
DayBefore(a, b) ==
  \/ a.y < b.y
  \/ (a.y = b.y /\ a.m < b.m)
  \/ (a.y = b.y /\ a.m = b.m /\ a.d < b.d)

\* C1: the notifier is called at most once for each novelty key: no
\* appointment is handed to it twice, and no two appointments handed to it
\* have the same key.
C1_AtMostOncePerKey ==
  /\ \A a \in DOMAIN sent : sent[a] <= 1
  /\ \A a, b \in DOMAIN sent : appointment_key(a) = appointment_key(b) => a = b

\* a cycle found the same slot twice in its list, the slot had been notified
\* by an earlier cycle, and the cycle's dedup loop is through with nothing new
C1_Witness ==
  /\ pc = "dedup"
  /\ Len(available_appointments) = 2
  /\ idx > 2
  /\ available_appointments[1] = available_appointments[2]
  /\ available_appointments[1] \in DOMAIN sent
  /\ new_appointments = <<>>

\* C2: whenever send_notification is called for an appointment, the key of
\* the appointment is in last_checked_appointments before the call.
C2_InsertThenNotify ==
  [][\A a \in DOMAIN sent' :
       (IF a \in DOMAIN sent THEN sent'[a] > sent[a] ELSE TRUE)
         => appointment_key(a) \in last_checked_appointments]_vars

\* the notify loop has handed a new appointment to the notifier
C2_Witness ==
  /\ pc = "notify"
  /\ idx = 2
  /\ new_appointments[1] \in DOMAIN sent

\* C3: once a cycle is over, every key in the seen set has had
\* send_notification called for its slot.
C3_SeenWasDispatched ==
  CycleOver => \A k \in last_checked_appointments : k \in SentKeys

\* C4: a date text with an ordinal suffix that is a day of the calendar is
\* rejected when the day is before the earliest acceptable date, and
\* accepted, location permitting, when it is that date or a later one.
C4_OrdinalDateRule ==
  \A day \in CalendarDays, e \in EarliestInputs :
    (/\ verdict # "pending"
     /\ candidate.date = OrdinalText(day)
     /\ EARLIEST_ACCEPTABLE_DATE = e.raw
     /\ e.valid)
      => IF DayBefore(day, e) THEN verdict = "rejected"
         ELSE (LocationPermits => verdict = "accepted")

\* date texts that have not the shape of a date, or that name a day no
\* calendar has
MalformedDateTexts ==
  ShapelessDateTexts
    \cup {OrdinalText(day) : day \in ImpossibleDays}
    \cup {PlainText(day) : day \in ImpossibleDays}

\* C5: a candidate with a malformed date text is never rejected on its date:
\* it is accepted whenever its location permits.
C5_MalformedDateFailsOpen ==
  (verdict # "pending" /\ candidate.date \in MalformedDateTexts)
    => (LocationPermits => verdict = "accepted")

\* February 29, 2025, which a lenient reading would put before the earliest
\* acceptable date 2025-09-03, at a preferred location: accepted
C5_Witness ==
  /\ verdict = "accepted"
  /\ candidate.date = PlainText([month |-> <<"F","e","b","r","u","a","r","y">>, m |-> 2, d |-> 29, y |-> 2025])
  /\ EARLIEST_ACCEPTABLE_DATE = <<"2","0","2","5","-","0","9","-","0","3">>
  /\ Truthy(candidate.location)

\* C6: a candidate whose date text has the shape of a date with a month
\* name that is none of the twelve is never rejected on its date.
C6_UnknownMonthFailsOpen ==
  \A day \in UnknownMonthDays :
    (verdict # "pending" /\ candidate.date \in {OrdinalText(day), PlainText(day)})
      => (LocationPermits => verdict = "accepted")

AbsentTime == candidate.time \in {None, <<>>}

\* C7: _is_appointment_suitable rejects every candidate whose time is
\* absent.
C7_AbsentTimeRejected ==
  (verdict # "pending" /\ AbsentTime) => verdict = "rejected"

\* C7, amended: a candidate whose time is absent never gets into the list
\* of suitable appointments, whatever its date and location are: the
\* extractor returns None for it and check_availability drops it.
C7_AbsentTimeDropped ==
  (kept # "pending" /\ AbsentTime) => kept = "dropped"

\* a candidate without a time that the filter accepts and check_availability
\* drops
C7_Witness ==
  /\ AbsentTime
  /\ verdict = "accepted"
  /\ kept = "dropped"

\* C8: for a candidate whose location is absent the verdict of the filter is
\* the verdict of the date rule, for every preferred-location list.
C8_AbsentLocationNeverRejects ==
  (verdict # "pending" /\ ~ Truthy(candidate.location))
    => (verdict = "accepted"
          <=> date_ok(candidate.date, EARLIEST_ACCEPTABLE_DATE))

\* a candidate without a location, with a date, accepted under a list of
\* preferred locations none of which is empty
C8_Witness ==
  /\ candidate.location = None
  /\ Truthy(candidate.date)
  /\ PREFERRED_TEST_CENTERS = <<"D","o","w","n","t","o","w","n",","," ","R","i","c","h","m","o","n","d">>
  /\ verdict = "accepted"

\* C9: a candidate whose location is present and contains, case ignored,
\* none of the preferred locations is rejected.
C9_PresentLocationMustMatch ==
  (/\ verdict # "pending"
   /\ Truthy(candidate.location)
   /\ ~ ContainsPreferredEntry(candidate.location))
    => verdict = "rejected"

\* "Surrey Office" against Downtown and Richmond, with no date to reject it
C9_Witness ==
  /\ candidate.location = <<"S","u","r","r","e","y"," ","O","f","f","i","c","e">>
  /\ candidate.date = None
  /\ PREFERRED_TEST_CENTERS = <<"D","o","w","n","t","o","w","n",","," ","R","i","c","h","m","o","n","d">>
  /\ verdict = "rejected"

\* C10: from a seen set without the key, the first check-and-record of an
\* appointment reports new, the second one reports not new and leaves the
\* seen set as it found it.
C10_SecondRecordIsNotNew ==
  (/\ Len(tracker_log) = 2
   /\ appointment_key(tracker_appointment) \notin tracker_log[1].before)
    => /\ tracker_log[1].is_new
       /\ ~ tracker_log[2].is_new
       /\ tracker_log[2].after = tracker_log[2].before

\* both passes made, from a seen set that held other keys only
C10_Witness ==
  /\ Len(tracker_log) = 2
  /\ tracker_log[1].before # {}
  /\ appointment_key(tracker_appointment) \notin tracker_log[1].before

\* two appointments that are not the same slot
DifferentSlots(a, b) ==
  a.date # b.date \/ a.time # b.time \/ a.location # b.location

\* C11: two appointments that differ in date, time or location, a field
\* absent in one and present in the other included, have different keys, so
\* the second of them is reported new after the first was recorded.
C11_KeysInjective ==
  Len(tracker_log) = 2 /\ DifferentSlots(tracker_log[1].appointment,
                                         tracker_log[2].appointment)
    => /\ tracker_log[1].appointment_key # tracker_log[2].appointment_key
       /\ tracker_log[2].is_new

\* C12: in continuous mode no failure of a cycle, that of its cleanup
\* included, ends the polling loop: a cycle that is not stopped from outside
\* is followed by the wait before the next cycle.
C12_FailureKeepsPolling ==
  [][(mode = "continuous" /\ pc = "cleanup" /\ pc' # "cleanup")
       => pc' \in {"sleeping", "stopped"}]_vars

\* C13: Ctrl+C takes effect between two cycles only: the process stops from
\* the wait or from the top of the loop, never from inside a cycle.
C13_StopOnlyWhenIdle ==
  [][pc' = "stopped" /\ pc # "stopped"
       => /\ pc \in {"start", "sleeping"}
          /\ \A k \in last_checked_appointments : k \in SentKeys]_vars

\* the running cycle has no candidate: its extraction is not over, or it
\* came back with an empty list
NoCandidates ==
  \/ pc \in {"start", "navigate", "availability"}
  \/ (pc = "dedup" /\ available_appointments = <<>>)

\* C14: a cycle whose extraction fails (driver setup, login, navigation or
\* the availability check) has no candidates: it calls the notifier for
\* nothing, leaves the seen set as it is, and ends by returning False, not
\* by an exception.
C14_FailedExtractionIsEmptyCycle ==
  [][NoCandidates
       => /\ sent' = sent
          /\ last_checked_appointments' = last_checked_appointments
          /\ (pc' = "cleanup"
                => returned' \in {"False", "KeyboardInterrupt"})]_vars

\* check_availability raised on a page that shows a suitable slot, in a
\* cycle that follows one which recorded a key
C14_Witness ==
  /\ pc = "dedup"
  /\ available_appointments = <<>>
  /\ suitable_appointments(page.buttons, page.date_elements,
                           page.location_elements, PREFERRED_TEST_CENTERS,
                           EARLIEST_ACCEPTABLE_DATE) # <<>>
  /\ last_checked_appointments # {}

\* the suitable appointments of the buttons of the page that can be read
ReadableSuitable ==
  {a \in {extract_appointment_data_from_button(page.buttons[i],
                                               page.date_elements,
                                               page.location_elements,
                                               PREFERRED_TEST_CENTERS) :
            i \in {j \in 1..Len(page.buttons) : page.buttons[j] # Stale}} :
     is_kept(a, PREFERRED_TEST_CENTERS, EARLIEST_ACCEPTABLE_DATE)}

\* C15: a failure on one candidate (a button that cannot be read, a
\* send_notification that answers False) does not keep the cycle from the
\* other candidates: when the notification loop is through, every suitable
\* appointment of the page is recorded and was handed to the notifier.
C15_OtherCandidatesProcessed ==
  (pc = "notify" /\ idx > Len(new_appointments))
    => \A a \in ReadableSuitable :
         /\ appointment_key(a) \in last_checked_appointments
         /\ a \in DOMAIN sent

\* two new appointments, the notifier answered False for the first and was
\* called for the second all the same
C15_Witness ==
  /\ pc = "notify"
  /\ Len(new_appointments) = 2
  /\ idx > 2
  /\ new_appointments[1] \in failed
  /\ new_appointments[2] \notin failed
  /\ new_appointments[2] \in DOMAIN sent

\* C16: the polling loop is idle or in a cycle, and it never ends but by a
\* stop from outside: in continuous mode, under a configuration that the
\* startup validation lets through, a state with no next step is a state
\* after Ctrl+C.
C16_OnlyStopIsTerminal ==
  (/\ mode = "continuous"
   /\ validate_config(unset_fields, NOTIFICATION_METHOD)
   /\ ~ ENABLED Next)
    => pc = "stopped"

\* C17: the first cycle starts from the startup of the process; every
\* later cycle starts only from the wait that follows the cleanup of the
\* cycle before it, and the wait starts only from that cleanup: no two
\* cycles overlap.
C17_CyclesDoNotOverlap ==
  [][/\ (pc' = "start" /\ pc # "start")
          => \/ (pc = "main" /\ driver = "none" /\ returned = "none")
             \/ (pc = "sleeping" /\ driver # "open" /\ new_appointments = <<>>)
     /\ (pc' = "sleeping" /\ pc # "sleeping") => pc = "cleanup"]_vars

\* a second cycle is under way, its browser open, after a first one that
\* returned
C17_Witness ==
  /\ pc = "navigate"
  /\ driver = "open"
  /\ returned \in {"True", "False"}

\* C18: an appointment for which send_notification answered False keeps its
\* key in the seen set and is handed to the notifier that one time only.
C18_FailedDispatchNotRetried ==
  \A a \in failed :
    /\ appointment_key(a) \in last_checked_appointments
    /\ sent[a] = 1

\* a later cycle finds again the slot whose notification failed, and its
\* dedup loop is through with nothing new
C18_Witness ==
  /\ pc = "dedup"
  /\ Len(available_appointments) = 1
  /\ idx > 1
  /\ available_appointments[1] \in failed
  /\ new_appointments = <<>>

\* the transport of the configured channel raised during call i
TransportFailed(i) ==
  \/ NOTIFICATION_METHOD = "email" /\ notifier_log[i].fails_at \in Range(EmailCalls)
  \/ NOTIFICATION_METHOD = "sms" /\ notifier_log[i].fails_at \in Range(SmsCalls)

\* C19: with email and with SMS, a send whose transport fails answers
\* False, and no exception leaves send_notification.
C19_TransportFailureIsFalse ==
  \A i \in 1..Len(notifier_log) :
    TransportFailed(i)
      => /\ notifier_log[i].outcome.result = FALSE
         /\ notifier_log[i].outcome.raised = FALSE

\* an email whose SMTP login was refused, and an SMS that Twilio refused
C19_Witness ==
  /\ notifier_log # <<>>
  /\ \/ NOTIFICATION_METHOD = "email" /\ notifier_log[1].fails_at = "login"
     \/ NOTIFICATION_METHOD = "sms" /\ notifier_log[1].fails_at = "create"
  /\ ~ notifier_log[1].outcome.result

\* C20: a call of send_notification uses the configured channel and no
\* other, and hands the message over at most once: never twice by email or
\* SMS, never at all with the console.
C20_OneAttemptOneChannel ==
  \A i \in 1..Len(notifier_log) :
    LET outcome == notifier_log[i].outcome
    IN  /\ outcome.email + outcome.sms <= 1
        /\ outcome.channels \subseteq {NOTIFICATION_METHOD}
        /\ NOTIFICATION_METHOD \in {"email", "sms", "console"}
             => outcome.channels = {NOTIFICATION_METHOD}
        /\ NOTIFICATION_METHOD # "email" => outcome.email = 0
        /\ NOTIFICATION_METHOD # "sms" => outcome.sms = 0

\* an SMS that failed in messages.create, followed by one that went out:
\* one hand-over each
C20_Witness ==
  /\ NOTIFICATION_METHOD = "sms"
  /\ Len(notifier_log) = 2
  /\ notifier_log[1].fails_at = "create"
  /\ ~ notifier_log[1].outcome.result
  /\ notifier_log[1].outcome.sms = 1
  /\ notifier_log[2].outcome.result
  /\ notifier_log[2].outcome.sms = 1

\* C21: with the console channel send_notification answers True for every
\* appointment, whichever of its date, time, location and license type are
\* absent.
C21_ConsoleAlwaysTrue ==
  NOTIFICATION_METHOD = "console"
    => \A i \in 1..Len(notifier_log) : notifier_log[i].outcome.result

\* the console was handed an appointment with no field at all
C21_Witness ==
  /\ NOTIFICATION_METHOD = "console"
  /\ notifier_log # <<>>
  /\ notifier_appointment.date = None
  /\ notifier_appointment.time = None
  /\ notifier_appointment.location = None
  /\ notifier_appointment.license_type = "<none>"

\* a required credential is unset, or a field the selected channel needs
ConfigInvalid ==
  \/ unset_fields \cap required_fields # {}
  \/ NOTIFICATION_METHOD = "email" /\ unset_fields \cap email_fields # {}
  \/ NOTIFICATION_METHOD = "sms" /\ unset_fields \cap sms_fields # {}

\* C22: under a configuration that fails validation the process ends with
\* status 1 before any cycle: no browser is started, no call of
\* check_for_new_appointments is made, the seen set stays empty and the
\* notifier is never called.
C22_InvalidConfigNeverPolls ==
  ConfigInvalid
    => /\ pc \in {"main", "exited"}
       /\ pc = "exited" => exit_status = "1"
       /\ driver = "none"
       /\ returned = "none"
       /\ last_checked_appointments = {}
       /\ sent = EmptyBag_

\* the SMS channel is selected and its token is not set: the process is over
C22_Witness ==
  /\ NOTIFICATION_METHOD = "sms"
  /\ unset_fields = {"TWILIO_AUTH_TOKEN"}
  /\ pc = "exited"
  /\ exit_status = "1"

\* C23: a cycle that finds a candidate whose key an earlier cycle recorded
\* inserts nothing and appends nothing for it; when it is the only
\* candidate found, the cycle prints found 1 and new 0, calls the notifier
\* for nothing and returns False.
C23_SecondFindingIsNotNew ==
  [][/\ (/\ pc = "dedup" /\ pc' = "dedup"
         /\ idx <= Len(available_appointments)
         /\ appointment_key(available_appointments[idx])
              \in last_checked_appointments)
          => /\ last_checked_appointments' = last_checked_appointments
             /\ new_appointments' = new_appointments
             /\ sent' = sent
     /\ (/\ pc = "dedup" /\ pc' = "cleanup"
         /\ returned' # "KeyboardInterrupt"
         /\ Len(available_appointments) = 1
         /\ new_appointments = <<>>)
          => /\ printed' = {<<"found", 1>>, <<"new", 0>>}
             /\ last_checked_appointments' = last_checked_appointments
             /\ sent' = sent
             /\ returned' = "False"]_vars

\* the cycle is over: it found the one slot that an earlier cycle had
\* recorded and notified, and nothing was new
C23_Witness ==
  /\ pc = "cleanup"
  /\ printed = {<<"found", 1>>, <<"new", 0>>}
  /\ returned = "False"
  /\ Cardinality(last_checked_appointments) = 1
  /\ Cardinality(DOMAIN sent) = 1
  /\ \A a \in DOMAIN sent : sent[a] = 1

\* C24: a cycle that ran to the end of its notification loop has recorded
\* three counts, found, new and notified, with notified <= new <= found.
C24_CycleOutcomeRecorded ==
  (pc = "cleanup" /\ returned = "True")
    => \E found, new, notified \in 0..MaxButtons :
         /\ {<<"found", found>>, <<"new", new>>, <<"notified", notified>>}
              \subseteq printed
         /\ notified <= new
         /\ new <= found

\* C25: the set of seen keys only grows.  No step of the process removes a
\* key, and the only step that adds one is the deduplication step, which
\* adds the key of the candidate it is looking at.
C25_SeenOnlyGrows ==
  [][/\ last_checked_appointments \subseteq last_checked_appointments'
     /\ last_checked_appointments' # last_checked_appointments
          => /\ pc = "dedup"
             /\ pc' = "dedup"
             /\ idx <= Len(available_appointments)
             /\ last_checked_appointments'
                  = last_checked_appointments
                      \cup {appointment_key(available_appointments[idx])}]_vars

\* a later cycle is under way and the keys of an earlier one are still there
C25_Witness ==
  /\ pc = "navigate"
  /\ driver = "open"
  /\ last_checked_appointments # {}

\* what the filter says of an appointment under the configuration of the run
Accepted(appointment) ==
  is_appointment_suitable(appointment, PREFERRED_TEST_CENTERS,
                          EARLIEST_ACCEPTABLE_DATE)

\* the appointments of a sequence
Elements(s) == {s[i] : i \in 1..Len(s)}

\* C26: the stages run in the order extract, filter, deduplicate, dispatch.
\* The list handed to deduplication holds only candidates the filter
\* accepted; a key enters the seen set only for a candidate of that list;
\* an appointment is dispatched only if deduplication reported it new in
\* the same cycle.
C26_StageOrder ==
  [][/\ \A a \in Elements(available_appointments') : Accepted(a)
     /\ (pc = "availability" /\ pc' = "dedup")
          => /\ available_appointments'
                  \in {<<>>, suitable_appointments(page'.buttons,
                                                   page'.date_elements,
                                                   page'.location_elements,
                                                   PREFERRED_TEST_CENTERS,
                                                   EARLIEST_ACCEPTABLE_DATE)}
             /\ new_appointments' = <<>>
             /\ last_checked_appointments' = last_checked_appointments
     /\ last_checked_appointments' # last_checked_appointments
          => /\ pc = "dedup"
             /\ idx <= Len(available_appointments)
             /\ Accepted(available_appointments[idx])
             /\ last_checked_appointments' \ last_checked_appointments
                  = {appointment_key(available_appointments[idx])}
     /\ (new_appointments' # new_appointments /\ new_appointments' # <<>>)
          => /\ pc = "dedup"
             /\ idx <= Len(available_appointments)
             /\ new_appointments'
                  = Append(new_appointments, available_appointments[idx])
             /\ appointment_key(available_appointments[idx])
                  \notin last_checked_appointments
             /\ appointment_key(available_appointments[idx])
                  \in last_checked_appointments'
     /\ sent' # sent
          => /\ pc = "notify"
             /\ idx <= Len(new_appointments)
             /\ sent' = BagAdd(sent, new_appointments[idx])
             /\ Accepted(new_appointments[idx])
             /\ appointment_key(new_appointments[idx])
                  \in last_checked_appointments
     /\ pc' = "notify"
          => /\ pc \in {"dedup", "notify"}
             /\ Elements(new_appointments') \subseteq Elements(available_appointments')
             /\ available_appointments' = available_appointments
             /\ last_checked_appointments' = last_checked_appointments]_vars

\* an earlier cycle dispatched an appointment; in this one the extractor
\* produced a candidate and the filter let nothing through
C26_Witness ==
  /\ pc = "dedup"
  /\ sent # EmptyBag_
  /\ available_appointments = <<>>
  /\ \E i \in 1..Len(page.buttons) :
       LET appointment_data ==
             extract_appointment_data_from_button(page.buttons[i],
                                                  page.date_elements,
                                                  page.location_elements,
                                                  PREFERRED_TEST_CENTERS)
       IN  /\ appointment_data # NoAppointment
           /\ ~Accepted(appointment_data)

\* the time of an appointment is there, is not empty and reads as a time of
\* day: it contains "am" or "pm", in any case
HasTimeOfDay(appointment) ==
  /\ appointment.time # None
  /\ appointment.time # <<>>
  /\ \/ ContainsIgnoringCase(<<"a","m">>, appointment.time)
     \/ ContainsIgnoringCase(<<"p","m">>, appointment.time)

\* C27: a candidate gets past extraction only with a time text that is not
\* empty and contains am or pm, case ignored.  So every appointment in the
\* lists of a cycle, every appointment handed to the notifier and every
\* appointment whose key enters the seen set has such a time.
C27_TimeGate ==
  [][/\ \A a \in Elements(available_appointments') \cup Elements(new_appointments')
                   \cup DOMAIN sent' :
          HasTimeOfDay(a)
     /\ (pc = "availability" /\ pc' = "dedup")
          => \A a \in Elements(available_appointments') :
               \E i \in 1..Len(page'.buttons) :
                 /\ page'.buttons[i] # Stale
                 /\ a.time = strip(page'.buttons[i])
     /\ last_checked_appointments' # last_checked_appointments
          => \E a \in Elements(available_appointments) :
               /\ HasTimeOfDay(a)
               /\ last_checked_appointments' \ last_checked_appointments
                    = {appointment_key(a)}]_vars

\* the page shows a button that reads "Morning" beside one with a time: the
\* one with the time is the only candidate, and it has been dispatched
C27_Witness ==
  /\ pc = "notify"
  /\ \E i \in 1..Len(page.buttons) : page.buttons[i] = <<"M","o","r","n","i","n","g">>
  /\ Len(available_appointments) = 1
  /\ last_checked_appointments = {appointment_key(available_appointments[1])}
  /\ available_appointments[1] \in DOMAIN sent

\* C28: a date text without ordinal suffix that is a day of the calendar is
\* rejected exactly when the day is strictly before the earliest acceptable
\* date.
C28_PlainDateRule ==
  \A day \in CalendarDays, e \in EarliestInputs :
    (/\ verdict # "pending"
     /\ candidate.date = PlainText(day)
     /\ EARLIEST_ACCEPTABLE_DATE = e.raw
     /\ e.valid)
      => (verdict = "rejected" <=> DayBefore(day, e))

\* C28, amended: a date text without ordinal suffix that is a day of the
\* calendar is rejected exactly when the day is strictly before the
\* earliest acceptable date or the location rule rejects the candidate; at
\* a location that permits, the earliest date itself is accepted.
C28_PlainDateRuleAtLocation ==
  \A day \in CalendarDays, e \in EarliestInputs :
    (/\ verdict # "pending"
     /\ candidate.date = PlainText(day)
     /\ EARLIEST_ACCEPTABLE_DATE = e.raw
     /\ e.valid)
      => (verdict = "rejected" <=> (DayBefore(day, e) \/ ~ LocationPermits))

\* "Monday, september 3, 2025" with the earliest acceptable date 2025-09-03,
\* at a preferred location: accepted
C28_Witness ==
  /\ verdict = "accepted"
  /\ candidate.date = <<"M","o","n","d","a","y",","," ","s","e","p","t","e","m","b","e","r"," ","3",","," ","2","0","2","5">>
  /\ EARLIEST_ACCEPTABLE_DATE = <<"2","0","2","5","-","0","9","-","0","3">>
  /\ Truthy(candidate.location)

\* C29: a candidate the extractor returns has no location, or a location
\* that contains a preferred test center, case ignored; the location rule
\* of the filter, under the same configuration, does not reject it.
C29_ExtractedLocationIsPreferred ==
  /\ kept = "extracted"
       => \/ candidate.location = None
          \/ ContainsPreferredEntry(candidate.location)
  /\ (kept = "extracted" /\ verdict # "pending") => verdict = "accepted"

\* the first location element of the page names no preferred center and the
\* second one does, in other letters than the configuration: the extractor
\* took the second, and the location rule accepted the candidate
C29_Witness ==
  /\ kept = "extracted"
  /\ verdict = "accepted"
  /\ PREFERRED_TEST_CENTERS = CycleCenters
  /\ page.location_elements = <<<<"S","u","r","r","e","y"," ","O","f","f","i","c","e">>, <<" "," ","d","o","w","n","t","o","w","n"," ","i","c","b","c"," ","o","f","f","i","c","e"," ">>>>
  /\ candidate.location = <<"d","o","w","n","t","o","w","n"," ","i","c","b","c"," ","o","f","f","i","c","e">>

\* C30: a call of check_for_new_appointments that put a new key into the
\* seen set returns True, whether or not a notification got through, and
\* with --once the process then does not exit with status 1: status 1 is
\* for the calls that return False.
C30_NewKeyMeansTrue ==
  [][/\ (pc = "notify" /\ pc' = "cleanup" /\ returned' # "KeyboardInterrupt")
          => /\ new_appointments # <<>>
             /\ returned' = "True"
     /\ (pc = "cleanup" /\ returned = "True" /\ pc' # "cleanup")
          => /\ returned' \in {"True", "KeyboardInterrupt"}
             /\ mode = "once" => exit_status' = "0"]_vars

\* C31: a cycle that has a browser driver does not end, on any path (an
\* early return, an exception, Ctrl+C, normal completion), before quit has
\* been called on the driver and has closed the session.  A quit that
\* raised has been called too: that path is left aside here.
C31_DriverQuitOnEveryPath ==
  [][(pc = "cleanup" /\ pc' # "cleanup" /\ driver = "open"
      /\ returned' # "Exception")
       => driver' = "quit"]_vars

\* the configured notification method is none of the three the notifier
\* knows
UnknownMethod == NOTIFICATION_METHOD \notin {"email", "sms", "console"}

\* C32: with a notification method that is none of email, sms and console,
\* the startup validation rejects the configuration only for a missing
\* required field; send_notification hands nothing over and answers False
\* for every appointment; so every appointment handed to the notifier has
\* its key in the seen set and has not been delivered.
C32_UnknownMethodNeverDelivers ==
  UnknownMethod
    => /\ validate_config(unset_fields, NOTIFICATION_METHOD)
            = (unset_fields \cap required_fields = {})
       /\ (pc = "exited" /\ returned = "none")
            => unset_fields \cap required_fields # {}
       /\ failed = DOMAIN sent
       /\ \A a \in DOMAIN sent :
            /\ appointment_key(a) \in last_checked_appointments
            /\ \A fails_at \in Transports :
                 LET outcome == send_notification(NOTIFICATION_METHOD, a, fails_at)
                 IN  /\ ~ outcome.result
                     /\ outcome.channels = {}
                     /\ outcome.email = 0
                     /\ outcome.sms = 0

\* the method is "pager" and the configuration got through the validation:
\* a cycle found two new slots, handed both to the notifier and returned
\* True; both are seen, neither was delivered
C32_Witness ==
  /\ NOTIFICATION_METHOD = "pager"
  /\ pc = "cleanup"
  /\ returned = "True"
  /\ Cardinality(last_checked_appointments) = 2
  /\ Cardinality(DOMAIN sent) = 2
  /\ failed = DOMAIN sent

====
